---- MODULE Spec2Model ----
(***************************************************************************)
(* A model of the policy loading core of cloud-custodian:                  *)
(*   c7n/structure.py  StructureParser  (structural pre-validation)        *)
(*   c7n/loader.py     SchemaValidator, PolicyLoader (cached validation)   *)
(*   c7n/lookup.py     Lookup           (value lookup)                     *)
(*                                                                         *)
(* Python values are records carrying their type name.  Resource type      *)
(* strings are sequences of one-character strings, so that the test        *)
(* `'.' not in rtype`, the prefix f'aws.{rtype}' and sorted() are computed  *)
(* the way the code computes them.                                         *)
(***************************************************************************)
EXTENDS Integers, Sequences, FiniteSets, TLC

VARIABLES
    pc,            \* position of the modelled caller: which call is in progress
    policy_data,   \* the document handed to validate / load_data
    outcome,       \* how the last call ended: a return value or a raised error
    calls,         \* the collaborators the last call invoked, in order
    rtypes,        \* the value get_resource_types returned (first and second call)
    frame,         \* load_data's arguments and locals: validate, missing, errors
    lookup_source, \* Lookup.extract's source argument
    lookup_data,   \* Lookup.extract's data argument
    cache,         \* the lru_cache of SchemaValidator._gen_schema, most recent first
    validator,     \* self.validator of each SchemaValidator
    constructions, \* how many times schema.generate ran for each cache key
    schema_module, \* whether `from c7n import schema` succeeded
    threads,       \* the threads inside load_data on one loader, each with its locals
    recency,       \* every (validator, tuple) requested so far, most recent first
    last           \* the last validator request: key, validator, rank before it

callVars == <<pc, policy_data, outcome, calls, rtypes, frame>>
lookupVars == <<lookup_source, lookup_data>>
loaderVars == <<cache, validator, constructions, schema_module>>
historyVars == <<recency, last>>

vars == <<pc, policy_data, outcome, calls, rtypes, frame, lookup_source, lookup_data,
          cache, validator, constructions, schema_module, threads, recency, last>>

(***************************************************************************)
(* Bounds of the model.                                                    *)
(***************************************************************************)
\* longest `policies` list of the documents given to StructureParser.validate
MaxPolicies == 2
\* longest `policies` list of the documents given to get_resource_types
MaxResources == 3
\* longest `policies` list of the documents given to PolicyLoader.load_data
MaxLoadPolicies == 2
\* how many resource-type sets are requested once only, one after the other
MaxFresh == 31

(***************************************************************************)
(* Strings as character sequences.                                         *)
(***************************************************************************)
\* the characters used by the resource names of the model, in ASCII order
Alphabet == <<".", "2", "3", "a", "b", "c", "d", "e", "l", "q", "r", "s", "w">>

Ord(c) == CHOOSE i \in 1..Len(Alphabet) : Alphabet[i] = c

\* Python's str < str: lexicographic by code point, a proper prefix is smaller
RECURSIVE StrLess(_, _)
StrLess(a, b) ==
    IF a = <<>> THEN b # <<>>
    ELSE IF b = <<>> THEN FALSE
    ELSE IF Head(a) = Head(b) THEN StrLess(Tail(a), Tail(b))
    ELSE Ord(Head(a)) < Ord(Head(b))

\* '.' in s
HasDot(s) == \E i \in 1..Len(s) : s[i] = "."

AwsPrefix == <<"a", "w", "s", ".">>

\* sorted(S) for a set of strings
RECURSIVE Sorted(_)
Sorted(S) ==
    IF S = {} THEN <<>>
    ELSE LET m == CHOOSE x \in S : \A y \in S \ {x} : StrLess(x, y)
         IN  <<m>> \o Sorted(S \ {m})

(***************************************************************************)
(* Python values of a policy document.                                     *)
(***************************************************************************)
\* a `filters` / `actions` value: its type and, for a list, its elements' types
ListOf(ts) == [type |-> "list", items |-> ts]
Scalar(t)  == [type |-> t, items |-> <<>>]

NoEntry ==
    [type |-> "none", keys |-> {}, name |-> "", resource |-> <<>>,
     filters |-> Scalar("absent"), actions |-> Scalar("absent"), conforms |-> TRUE]

\* a policy entry that is a mapping with the given keys
Entry(keys, name, resource, filters, actions, conforms) ==
    [type |-> "dict", keys |-> keys, name |-> name, resource |-> resource,
     filters |-> filters, actions |-> actions, conforms |-> conforms]

\* a policy entry that is not a mapping (a bare string in the list)
StrEntry == [NoEntry EXCEPT !.type = "str"]

\* p.get(key, default) for the two list-valued keys
GetFilters(p) == IF "filters" \in p.keys THEN p.filters ELSE ListOf(<<>>)
GetActions(p) == IF "actions" \in p.keys THEN p.actions ELSE ListOf(<<>>)

\* a document: its type, its top-level keys and the value under `policies`
Doc(type, keys, ptype, items) ==
    [type |-> type, keys |-> keys, policies |-> [type |-> ptype, items |-> items]]

NoDoc == Doc("none", {}, "absent", <<>>)

\* the `resource` values of a document's policies, in document order
ResourcesOf(d) == [i \in 1..Len(d.policies.items) |-> d.policies.items[i].resource]

(***************************************************************************)
(* Errors and results.                                                     *)
(***************************************************************************)
\* a raised exception: its class, the check that raised it, the policy name
\* the message carries, the keys or type name the message reports, and the
\* entry the message dumps
Err(exc, check, policy, found, dump) ==
    [kind |-> "raised", exc |-> exc, check |-> check, policy |-> policy,
     found |-> found, dump |-> dump, detail |-> <<>>]

PVE(check, policy, found, dump) ==
    Err("PolicyValidationError", check, policy, found, dump)

\* a normal return
Ok == [kind |-> "returned", exc |-> "", check |-> "", policy |-> "",
       found |-> {}, dump |-> NoEntry, detail |-> <<>>]

NoOutcome == [Ok EXCEPT !.kind = "none"]

(***************************************************************************)
(* StructureParser                                                         *)
(***************************************************************************)
\* a parser that recognizes `variables` in place of `vars`
allowed_file_keys_variables == {"variables", "policies"}

allowed_file_keys == {"vars", "policies"}

required_policy_keys == {"name", "resource"}

allowed_policy_keys ==
    {"name", "resource", "title", "description", "mode",
     "tags", "max-resources", "metadata", "query",
     "filters", "actions", "source", "conditions",
     "region", "start", "end", "tz", "max-resources-percent",
     "comments", "comment"}

element_types == {"dict", "str"}

\* the first element of a list that is not a dict or a str (0: none)
FirstBadElement(items) ==
    LET bad == {i \in 1..Len(items) : items[i] \notin element_types}
    IN  IF bad = {} THEN 0 ELSE CHOOSE i \in bad : \A j \in bad : i <= j

\* `for f in value`: iterating None raises TypeError
IterError(check) == Err("TypeError", check, "", {"NoneType"}, NoEntry)

validate_policy(p) ==
    IF p.type # "dict" THEN
        PVE("policy_not_mapping", "", {p.type}, p)
    ELSE IF required_policy_keys \ p.keys # {} THEN
        PVE("missing_required", "", {}, p)
    ELSE IF p.keys \ allowed_policy_keys # {} THEN
        PVE("unknown_keys", p.name, p.keys \ allowed_policy_keys, NoEntry)
    ELSE IF GetFilters(p).type \notin {"list", "NoneType"} THEN
        PVE("filters_not_list", p.name, {p.filters.type}, NoEntry)
    ELSE IF GetFilters(p).type = "NoneType" THEN
        IterError("filters_iteration")
    ELSE IF FirstBadElement(GetFilters(p).items) # 0 THEN
        PVE("filter_element", p.name,
            {GetFilters(p).items[FirstBadElement(GetFilters(p).items)]}, NoEntry)
    ELSE IF GetActions(p).type \notin {"list", "NoneType"} THEN
        PVE("actions_not_list", p.name, {p.actions.type}, NoEntry)
    ELSE IF GetActions(p).type = "NoneType" THEN
        IterError("actions_iteration")
    ELSE IF FirstBadElement(GetActions(p).items) # 0 THEN
        PVE("action_element", p.name,
            {GetActions(p).items[FirstBadElement(GetActions(p).items)]}, NoEntry)
    ELSE Ok

\* `for p in pdata: self.validate_policy(p)`, from entry i on
RECURSIVE ValidateFrom(_, _)
ValidateFrom(pdata, i) ==
    IF i > Len(pdata) THEN Ok
    ELSE IF validate_policy(pdata[i]) # Ok THEN validate_policy(pdata[i])
    ELSE ValidateFrom(pdata, i + 1)

validate(data) ==
    IF data.type # "dict" THEN
        PVE("not_mapping", "", {data.type}, NoEntry)
    ELSE IF data.keys \ allowed_file_keys # {} THEN
        PVE("top_level_keys", "", data.keys \ allowed_file_keys, NoEntry)
    ELSE IF "policies" \notin data.keys THEN
        PVE("policies_missing", "", {}, NoEntry)
    ELSE IF data.policies.type # "list" THEN
        PVE("policies_not_list", "", {data.policies.type}, NoEntry)
    ELSE ValidateFrom(data.policies.items, 1)

\* a qualification that tests for the dot the wrong way round
QualifyInverted(rtype) == IF HasDot(rtype) THEN AwsPrefix \o rtype ELSE rtype

\* the qualified resource type of a policy: bare names get the aws. prefix
Qualify(rtype) == IF ~HasDot(rtype) THEN AwsPrefix \o rtype ELSE rtype

\* data.get('policies', [])
GetPolicies(data) ==
    IF "policies" \in data.keys THEN data.policies.items ELSE <<>>

RECURSIVE ResourceTypesFrom(_, _, _)
ResourceTypesFrom(pdata, i, resources) ==
    IF i > Len(pdata) THEN resources
    ELSE ResourceTypesFrom(pdata, i + 1, resources \cup {Qualify(pdata[i].resource)})

get_resource_types(data) == ResourceTypesFrom(GetPolicies(data), 1, {})

(***************************************************************************)
(* SchemaValidator: the cached schema generation                           *)
(***************************************************************************)
\* the SchemaValidator objects of the process (one per PolicyLoader)
Instances == {1, 2}

\* a compiled validator: the resource types of its schema, the SchemaValidator
\* whose _gen_schema call built it, and which construction for that key it is
NewValidator(inst, rt, n) == [types |-> rt, owner |-> inst, serial |-> n]

\* self.validator = None
NoValidator == NewValidator(0, <<>>, 0)

\* @lru_cache(maxsize=32)
maxsize == 32

\* a key made of the resource types alone, whichever validator asks
CacheKeyOfTupleAlone(inst, rt) == <<0, rt>>

\* the key lru_cache makes of the call's arguments (self, resource_types)
CacheKey(inst, rt) == <<inst, rt>>

\* where the cache holds key (0: nowhere)
CacheIndex(c, key) ==
    IF \E i \in 1..Len(c) : c[i].key = key
    THEN CHOOSE i \in 1..Len(c) : c[i].key = key
    ELSE 0

\* a hit makes the entry the most recently used
CacheHit(c, i) == <<c[i]>> \o SubSeq(c, 1, i - 1) \o SubSeq(c, i + 1, Len(c))

\* a miss stores the result, evicting the least recently used entry of a full
\* cache; a key stored meanwhile by another caller keeps its entry
CacheStore(c, key, v) ==
    IF CacheIndex(c, key) # 0 THEN c
    ELSE IF Len(c) >= maxsize
         THEN <<[key |-> key, value |-> v]>> \o SubSeq(c, 1, Len(c) - 1)
         ELSE <<[key |-> key, value |-> v]>> \o c

\* how many times schema.generate ran for key
Constructed(n, key) == IF key \in DOMAIN n THEN n[key] ELSE 0

CountConstruction(n, key) ==
    [k \in DOMAIN n \cup {key} |-> IF k = key THEN Constructed(n, key) + 1 ELSE n[k]]

\* _gen_schema's body: schema.generate, check_schema, JsonSchemaValidator(rt_schema)
BuildValidator(n, inst, rt) == NewValidator(inst, rt, Constructed(n, CacheKey(inst, rt)) + 1)

\* self._gen_schema(resource_types) run without interruption: the cache after
\* the call, the construction counts, the validator returned, and whether
\* schema.generate ran
CachedGenSchema(c, n, inst, rt) ==
    LET key == CacheKey(inst, rt)
        i == CacheIndex(c, key)
    IN  IF i # 0
        THEN [cache |-> CacheHit(c, i), constructions |-> n,
              value |-> c[i].value, built |-> FALSE]
        ELSE [cache |-> CacheStore(c, key, BuildValidator(n, inst, rt)),
              constructions |-> CountConstruction(n, key),
              value |-> BuildValidator(n, inst, rt), built |-> TRUE]

Range(f) == {f[i] : i \in DOMAIN f}

\* one element of the list SchemaValidator.validate returns
Element(what, policy) == [what |-> what, policy |-> policy]

\* validator.iter_errors(policy_data): the policies that do not conform to the
\* schema generated for the validator's resource types, in document order
iter_errors(v, d) ==
    SelectSeq(GetPolicies(d),
              LAMBDA p : ~p.conforms \/ Qualify(p.resource) \notin Range(v.types))

\* schema.check_unique(policy_data): a pair for the first repeated policy name
check_unique(d) ==
    LET ps == GetPolicies(d)
        dup == {i \in 1..Len(ps) : \E j \in 1..Len(ps) : j # i /\ ps[j].name = ps[i].name}
    IN  IF dup = {} THEN <<>>
        ELSE <<Element("unique_error", ps[CHOOSE i \in dup : \A j \in dup : i <= j].name),
               Element("name", ps[CHOOSE i \in dup : \A j \in dup : i <= j].name)>>

\* schema.best_match(errors): None for an empty sequence
best_match(errors) ==
    IF errors = <<>> THEN Element("None", "")
    ELSE Element("best_match", errors[1].name)

\* list(filter(None, xs))
FilterNone(xs) == SelectSeq(xs, LAMBDA x : x.what # "None")

\* SchemaValidator._validate, reading self.validator as v for the main check
\* and as v2 for the fallback's second iter_errors
schema_validate(v, v2, d, narrow_ok) ==
    LET errors == iter_errors(v, d)
    IN  IF errors = <<>> THEN check_unique(d)
        ELSE IF narrow_ok
             THEN <<Element("specific_error", errors[1].name),
                    Element("name", errors[1].name)>>
             ELSE FilterNone(<<Element("raw_error", errors[1].name),
                               best_match(iter_errors(v2, d))>>)

(***************************************************************************)
(* PolicyLoader                                                            *)
(***************************************************************************)
\* a loader that skips the structural check when schema validation is off
StructureCheckUnlessOff(d, flag) == IF flag = "False" THEN Ok ELSE validate(d)

\* load_data's first statement: self.structure.validate(policy_data)
StructureCheck(d, flag) == validate(d)

\* load_resources(list(rtypes)): the requested types the catalog does not know
load_resources(requested, known) == requested \ known

\* a scan that keeps the last policy of an unknown type instead of the first
LastMissing(ps, missing) ==
    LET hit == {i \in 1..Len(ps) : Qualify(ps[i].resource) \in missing}
    IN  IF hit = {} THEN 0 ELSE CHOOSE i \in hit : \A j \in hit : i >= j

\* the first policy whose qualified resource type is in missing (0: none)
FirstMissing(ps, missing) ==
    LET hit == {i \in 1..Len(ps) : Qualify(ps[i].resource) \in missing}
    IN  IF hit = {} THEN 0 ELSE CHOOSE i \in hit : \A j \in hit : i <= j

\* _handle_missing_resources: raises for the first policy of an unknown type
handle_missing_resources(d, missing) ==
    LET ps == GetPolicies(d)
        i == FirstMissing(ps, missing)
    IN  IF i = 0 THEN Ok
        ELSE [PVE("unknown_resource", ps[i].name, {}, NoEntry)
                EXCEPT !.detail = <<ps[i].resource>>]

\* `schema and (validate is not False or (validate is None and default))`
SchemaValidationOn(schema_ok, flag) ==
    schema_ok /\ (flag # "False" \/ (flag = "None" /\ schema_ok))

\* load_data's use of a non-empty validation result: errors[1], errors[0]
RaiseValidationErrors(errors) ==
    IF Len(errors) < 2
    THEN Err("IndexError", "schema_validation", "", {}, NoEntry)
    ELSE [PVE("schema_validation", errors[2].policy, {}, NoEntry)
            EXCEPT !.detail = <<errors[2], errors[1]>>]

\* collection_class.from_data(policy_data, config, session_factory)
Collection == [Ok EXCEPT !.check = "PolicyCollection"]

NoFrame == [validate |-> "", missing |-> {}, errors |-> <<>>]

(***************************************************************************)
(* Lookup                                                                  *)
(***************************************************************************)
\* JSON values are written as their Python text; None is "None"
RESOURCE_SOURCE == "resource"

\* a literal source of the given type
Literal(type, value) ==
    [type |-> type, value |-> value, keys |-> {}, typ |-> "", key |-> "", default |-> ""]

\* a mapping source: its keys, and the values under type, key, default-value
Mapping(keys, typ, key, default) ==
    [type |-> "dict", value |-> "", keys |-> keys,
     typ |-> IF "type" \in keys THEN typ ELSE "",
     key |-> IF "key" \in keys THEN key ELSE "",
     default |-> IF "default-value" \in keys THEN default ELSE ""]

Returned(value) == [kind |-> "returned", exc |-> "", value |-> value, key |-> ""]
Raised(exc, key) == [kind |-> "raised", exc |-> exc, value |-> "", key |-> key]

\* jmespath.search(key, resource) for a one-field path: the value under the
\* field, None when the resource is None, the field is not there or holds null
jmespath_search(key, resource) ==
    IF resource.type = "dict" /\ key \in DOMAIN resource.fields
    THEN resource.fields[key]
    ELSE "None"

get_value_from_resource(src, resource) ==
    IF "key" \notin src.keys THEN Raised("KeyError", "key")
    ELSE IF jmespath_search(src.key, resource) # "None"
         THEN Returned(jmespath_search(src.key, resource))
    ELSE IF "default-value" \notin src.keys THEN Raised("Exception", src.key)
    ELSE Returned(src.default)

\* a type other than `resource` falls off the end of get_value: None
get_value(src, resource) ==
    IF "type" \notin src.keys THEN Raised("KeyError", "type")
    ELSE IF src.typ = RESOURCE_SOURCE THEN get_value_from_resource(src, resource)
    ELSE Returned("None")

is_lookup(src) == src.type = "dict"

extract(src, resource) ==
    IF is_lookup(src) THEN get_value(src, resource) ELSE Returned(src.value)

(***************************************************************************)
(* Values of the variables a specification does not use.                   *)
(***************************************************************************)
NoLookup == lookup_source = "" /\ lookup_data = ""

NoLoader ==
    /\ cache = <<>>
    /\ validator = [i \in Instances |-> NoValidator]
    /\ constructions = <<>>
    /\ schema_module = TRUE

NoThreads == threads = <<>>

NoHistory == recency = <<>> /\ last = ""

(***************************************************************************)
(* Documents given to StructureParser.validate                             *)
(***************************************************************************)
\* values a `filters` or `actions` key can hold ("absent": the key is not there)
ListValues ==
    {Scalar("absent"), Scalar("NoneType"), Scalar("str"),
     ListOf(<<"dict", "str">>), ListOf(<<"dict", "int">>)}

Ec2 == <<"e", "c", "2">>
AwsEc2 == AwsPrefix \o Ec2
S3 == <<"s", "3">>
AwsS3 == AwsPrefix \o S3

\* the keys an entry carries: those of ks, and a list-valued key when it has a value
KeysOf(ks, f, a) ==
    ks \cup (IF f.type # "absent" THEN {"filters"} ELSE {})
       \cup (IF a.type # "absent" THEN {"actions"} ELSE {})

\* a mapping entry; a key that is not there has no value
MkEntry(ks, name, resource, f, a, conforms) ==
    Entry(KeysOf(ks, f, a),
          IF "name" \in ks THEN name ELSE "",
          IF "resource" \in ks THEN resource ELSE <<>>,
          f, a, conforms)

StructureEntries ==
    {StrEntry} \cup
    { MkEntry(ks, "p1", Ec2, f, a, TRUE) :
        ks \in SUBSET {"name", "resource", "bogus"},
        f \in ListValues, a \in ListValues }

\* sequences over S of length at most n
SeqsUpTo(S, n) == UNION {[1..k -> S] : k \in 0..n}

\* documents whose top level is well formed, with every combination of entries,
\* and documents whose top level is malformed, with at most one entry
StructureDocs ==
    { Doc("dict", ks, "list", items) :
        ks \in {{"policies"}, {"vars", "policies"}},
        items \in SeqsUpTo(StructureEntries, MaxPolicies) }
    \cup
    { Doc("dict", ks, pt, items) :
        ks \in SUBSET {"vars", "variables", "policies"},
        pt \in {"list", "dict", "NoneType"},
        items \in SeqsUpTo({StrEntry, MkEntry({"name"}, "p1", Ec2,
                             Scalar("absent"), Scalar("str"), TRUE)}, 1) }
    \cup {Doc("list", {}, "absent", <<>>), Doc("str", {}, "absent", <<>>)}

(***************************************************************************)
(* SpecStructure: StructureParser.validate applied to one document.        *)
(***************************************************************************)
InitStructure ==
    /\ pc = "structure"
    /\ policy_data \in StructureDocs
    /\ outcome = NoOutcome
    /\ calls = <<>>
    /\ rtypes = <<>>
    /\ frame = NoFrame
    /\ NoLookup
    /\ NoLoader
    /\ NoThreads
    /\ NoHistory

\* StructureParser().validate(policy_data)
Validate ==
    /\ pc = "structure"
    /\ pc' = "validated"
    /\ outcome' = validate(policy_data)
    /\ calls' = <<"structure.validate">>
    /\ UNCHANGED <<policy_data, rtypes, frame, lookupVars, loaderVars, threads, historyVars>>

NextStructure == Validate

SpecStructure == InitStructure /\ [][NextStructure]_vars

(***************************************************************************)
(* SpecResources: validate, then get_resource_types (twice), on a document *)
(* whose entries differ in their `resource`.                               *)
(***************************************************************************)
PlainEntry(name, resource) ==
    MkEntry({"name", "resource"}, name, resource,
            Scalar("absent"), Scalar("absent"), TRUE)

ResourceEntries ==
    {PlainEntry("p1", r) : r \in {Ec2, AwsEc2, AwsS3, S3}}
    \cup {MkEntry({"name"}, "p1", Ec2, Scalar("absent"), Scalar("absent"), TRUE)}

ResourceDocs ==
    { Doc("dict", ks \cup {"policies"}, "list", items) :
        ks \in SUBSET {"vars", "variables", "policy"},
        items \in SeqsUpTo(ResourceEntries, MaxResources) }
    \cup
    { Doc("dict", ks, "absent", <<>>) : ks \in SUBSET {"vars", "variables", "policy"} }
    \cup
    { Doc("dict", ks \cup {"policies"}, "dict", <<>>) :
        ks \in SUBSET {"vars", "variables"} }
    \cup {Doc("list", {}, "absent", <<>>)}

InitResources ==
    /\ pc = "inspect"
    /\ policy_data \in ResourceDocs
    /\ outcome = NoOutcome
    /\ calls = <<>>
    /\ rtypes = <<>>
    /\ frame = NoFrame
    /\ NoLookup
    /\ NoLoader
    /\ NoThreads
    /\ NoHistory

\* structure.validate(data); structure.get_resource_types(data), called twice
Inspect ==
    /\ pc = "inspect"
    /\ pc' = "inspected"
    /\ outcome' = validate(policy_data)
    /\ calls' = <<"structure.validate">>
    /\ rtypes' = IF validate(policy_data) = Ok
                 THEN <<get_resource_types(policy_data), get_resource_types(policy_data)>>
                 ELSE <<>>
    /\ UNCHANGED <<policy_data, frame, lookupVars, loaderVars, threads, historyVars>>

NextResources == Inspect

SpecResources == InitResources /\ [][NextResources]_vars

(***************************************************************************)
(* SpecLookup: Lookup.extract applied to one source and one resource.      *)
(***************************************************************************)
LookupSources ==
    {Literal("int", "42"), Literal("str", "x"), Literal("NoneType", "None"),
     Literal("list", "[]")}
    \cup
    { Mapping(ks, t, k, dv) :
        ks \in SUBSET {"type", "key", "default-value"},
        t \in {"resource", "other"}, k \in {"a", "b"}, dv \in {"x", "0", "None"} }

\* resources: None, and mappings that hold nothing or one value under `a`
LookupResources ==
    {[type |-> "NoneType", fields |-> <<>>], [type |-> "dict", fields |-> <<>>]}
    \cup
    {[type |-> "dict", fields |-> [k \in {"a"} |-> v]] :
        v \in {"None", "0", "False", "", "prod"}}

InitLookup ==
    /\ pc = "lookup"
    /\ lookup_source \in LookupSources
    /\ lookup_data \in LookupResources
    /\ outcome = NoOutcome
    /\ policy_data = NoDoc
    /\ calls = <<>>
    /\ rtypes = <<>>
    /\ frame = NoFrame
    /\ NoLoader
    /\ NoThreads
    /\ NoHistory

\* Lookup.extract(source, data)
Extract ==
    /\ pc = "lookup"
    /\ pc' = "extracted"
    /\ outcome' = extract(lookup_source, lookup_data)
    /\ UNCHANGED <<policy_data, calls, rtypes, frame, lookupVars, loaderVars,
                   threads, historyVars>>

NextLookup == Extract

SpecLookup == InitLookup /\ [][NextLookup]_vars

(***************************************************************************)
(* Spec: a PolicyLoader serving load_data calls one after another.         *)
(***************************************************************************)
LoadEntries ==
    { MkEntry({"name", "resource"}, n, r, Scalar("absent"), Scalar("absent"), TRUE) :
        n \in {"p1", "p2"}, r \in {Ec2, AwsS3} }
    \cup
    { MkEntry({"name", "resource"}, "p2", Ec2, Scalar("absent"), Scalar("absent"), FALSE) }
    \cup
    { MkEntry({"resource"}, "", AwsS3, Scalar("absent"), Scalar("absent"), TRUE),
      MkEntry({"name", "resource"}, "p1", Ec2, Scalar("str"), Scalar("absent"), TRUE) }

LoadDocs ==
    { Doc("dict", {"policies"}, "list", items) :
        items \in SeqsUpTo(LoadEntries, MaxLoadPolicies) }
    \cup
    { Doc("list", {}, "absent", <<>>),
      Doc("dict", {"vars"}, "absent", <<>>),
      Doc("dict", {"policies"}, "dict", <<>>),
      Doc("dict", {"policies", "variables"}, "list",
          <<PlainEntry("p1", Ec2)>>) }

\* the resource types the catalog may or may not know
CatalogTypes == {AwsEc2, AwsS3}

\* the values of load_data's validate argument
ValidateFlags == {"None", "True", "False"}

Init ==
    /\ pc = "idle"
    /\ policy_data = NoDoc
    /\ outcome = NoOutcome
    /\ calls = <<>>
    /\ rtypes = <<>>
    /\ frame = NoFrame
    /\ cache = <<>>
    /\ validator = [i \in Instances |-> NoValidator]
    /\ constructions = <<>>
    /\ schema_module \in BOOLEAN
    /\ NoLookup
    /\ NoThreads
    /\ NoHistory

\* the collaborators a schema validation calls
ValidationCalls(built, errors_found, narrow_ok) ==
    <<"validator.validate", "gen_schema">>
    \o (IF built THEN <<"schema.generate", "check_schema">> ELSE <<>>)
    \o <<"iter_errors">>
    \o (IF ~errors_found THEN <<"check_unique">>
        ELSE IF narrow_ok THEN <<"specific_error">>
        ELSE <<"specific_error", "iter_errors", "best_match">>)

\* loader.load_data(policy_data, file_uri, validate) on loader 1
Load ==
    /\ pc = "idle"
    /\ \E d \in LoadDocs, flag \in ValidateFlags,
          known \in SUBSET CatalogTypes, narrow_ok \in BOOLEAN :
        LET structure == StructureCheck(d, flag)
            types == get_resource_types(d)
            missing == load_resources(types, known)
            unresolved == IF missing # {} THEN handle_missing_resources(d, missing)
                          ELSE Ok
            gen == CachedGenSchema(cache, constructions, 1, Sorted(types))
            errors == schema_validate(gen.value, gen.value, d, narrow_ok)
            resolve == <<"structure.validate", "get_resource_types", "load_resources">>
                       \o (IF missing # {} THEN <<"_handle_missing_resources">> ELSE <<>>)
        IN  /\ pc' = "returned"
            /\ policy_data' = d
            /\ rtypes' = <<>>
            /\ IF structure # Ok THEN
                   /\ outcome' = structure
                   /\ calls' = <<"structure.validate">>
                   /\ frame' = [validate |-> flag, missing |-> {}, errors |-> <<>>]
                   /\ UNCHANGED loaderVars
               ELSE IF unresolved # Ok THEN
                   /\ outcome' = unresolved
                   /\ calls' = resolve
                   /\ frame' = [validate |-> flag, missing |-> missing, errors |-> <<>>]
                   /\ UNCHANGED loaderVars
               ELSE IF ~SchemaValidationOn(schema_module, flag) THEN
                   /\ outcome' = Collection
                   /\ calls' = resolve \o <<"from_data">>
                   /\ frame' = [validate |-> flag, missing |-> missing, errors |-> <<>>]
                   /\ UNCHANGED loaderVars
               ELSE
                   /\ cache' = gen.cache
                   /\ constructions' = gen.constructions
                   /\ validator' = [validator EXCEPT ![1] = gen.value]
                   /\ UNCHANGED schema_module
                   /\ frame' = [validate |-> flag, missing |-> missing, errors |-> errors]
                   /\ IF errors # <<>>
                      THEN /\ outcome' = RaiseValidationErrors(errors)
                           /\ calls' = resolve
                                \o ValidationCalls(gen.built, iter_errors(gen.value, d) # <<>>,
                                                   narrow_ok)
                      ELSE /\ outcome' = Collection
                           /\ calls' = resolve
                                \o ValidationCalls(gen.built, FALSE, narrow_ok)
                                \o <<"from_data">>
    /\ UNCHANGED <<lookupVars, threads, historyVars>>

\* the caller takes the result (or the error): load_data's frame is gone
Return ==
    /\ pc = "returned"
    /\ pc' = "idle"
    /\ policy_data' = NoDoc
    /\ outcome' = NoOutcome
    /\ calls' = <<>>
    /\ frame' = NoFrame
    /\ UNCHANGED <<rtypes, lookupVars, loaderVars, threads, historyVars>>

Next == Load \/ Return

Spec == Init /\ [][Next]_vars

(***************************************************************************)
(* SpecCache: two SchemaValidators (two loaders of one process) serving    *)
(* validate calls one after another.  Validator 1 is asked for the hot     *)
(* resource-type set again and again and for each fresh set once, in a     *)
(* fixed order; validator 2 is asked for the hot set only.                 *)
(***************************************************************************)
\* the letters of the names standing for further resource types
Letters == <<"a", "b", "c", "d", "e", "l">>

PolicyNames == <<"p1", "p2", "p3">>

\* the resource names of the documents both validators are asked about
HotSet == {Ec2, S3}

\* the k-th further resource name
FreshName(k) ==
    <<Letters[((k - 1) \div Len(Letters)) + 1], Letters[((k - 1) % Len(Letters)) + 1]>>

FreshSet(k) == {FreshName(k)}

\* a document whose policies carry the given resources, in that order
DocOf(resources) ==
    Doc("dict", {"policies"}, "list",
        [i \in 1..Len(resources) |-> PlainEntry(PolicyNames[i], resources[i])])

Reverse(q) == [i \in 1..Len(q) |-> q[Len(q) + 1 - i]]

\* two documents for one set of resources: the names in sorted order, and in
\* reverse order with the last name repeated at the end
Arrangements(S) ==
    {DocOf(Sorted(S)), DocOf(Reverse(Sorted(S)) \o <<Sorted(S)[Len(Sorted(S))]>>)}

HotDocs == Arrangements(HotSet)

\* the document of the k-th fresh set
FreshDocs == [k \in 1..(MaxFresh + 1) |-> DocOf(Sorted(FreshSet(k)))]

NoRequest ==
    [inst |-> 0, key |-> <<>>, value |-> NoValidator, built |-> FALSE,
     seen |-> FALSE, within |-> FALSE, boundary |-> FALSE, prev |-> NoValidator,
     prev_resources |-> <<>>,
     tuple_seen |-> FALSE, tuple_within |-> FALSE, tuple_prev |-> NoValidator]

\* where recency holds the request key, a validator and a resource-type tuple
\* (0: that validator never asked for that tuple)
RankOf(key) ==
    IF \E i \in 1..Len(recency) : recency[i].key = key
    THEN CHOOSE i \in 1..Len(recency) : recency[i].key = key
    ELSE 0

\* where recency first holds a key of this resource-type tuple (0: nowhere)
TupleRankOf(rt) ==
    IF \E i \in 1..Len(recency) : recency[i].key[2] = rt
    THEN CHOOSE i \in 1..Len(recency) :
             recency[i].key[2] = rt /\ \A j \in 1..(i - 1) : recency[j].key[2] # rt
    ELSE 0

\* the number of other tuples requested since this tuple's last use
OtherTuplesSince(rt) ==
    Cardinality({recency[j].key[2] : j \in 1..(TupleRankOf(rt) - 1)})

\* the sorted tuple of the hot set's qualified types
HotTuple == Sorted({Qualify(r) : r \in HotSet})

\* how many fresh sets validator 1 has been asked for
FreshRequested ==
    Cardinality({i \in 1..Len(recency) : recency[i].key[2] # HotTuple})

InitCache ==
    /\ pc = "serving"
    /\ policy_data = NoDoc
    /\ outcome = NoOutcome
    /\ calls = <<>>
    /\ rtypes = <<>>
    /\ frame = NoFrame
    /\ cache = <<>>
    /\ validator = [i \in Instances |-> NoValidator]
    /\ constructions = <<>>
    /\ schema_module \in BOOLEAN
    /\ recency = <<>>
    /\ last = NoRequest
    /\ NoLookup
    /\ NoThreads

\* SchemaValidator.validate(policy_data) on validator inst
SchemaValidate(inst, d) ==
    \E rt \in {Sorted(get_resource_types(d))} :
    \E gen \in {CachedGenSchema(cache, constructions, inst, rt)} :
    \E errors \in {schema_validate(gen.value, gen.value, d, TRUE)} :
    \E rank \in {RankOf(<<inst, rt>>)}, trank \in {TupleRankOf(rt)} :
        /\ pc = "serving"
        /\ policy_data' = d
        /\ IF ~schema_module THEN
               /\ outcome' = Err("RuntimeError", "missing_jsonschema", "", {}, NoEntry)
               /\ calls' = <<"gen_schema">>
               /\ UNCHANGED <<frame, loaderVars, historyVars>>
           ELSE
               /\ cache' = gen.cache
               /\ constructions' = gen.constructions
               /\ validator' = [validator EXCEPT ![inst] = gen.value]
               /\ outcome' = [Ok EXCEPT !.detail = errors]
               /\ calls' = ValidationCalls(gen.built, FALSE, TRUE)
               /\ frame' = [NoFrame EXCEPT !.errors = errors]
               /\ recency' = <<[key |-> <<inst, rt>>, value |-> gen.value,
                                resources |-> ResourcesOf(d)]>>
                             \o SelectSeq(recency, LAMBDA e : e.key # <<inst, rt>>)
               /\ last' = [inst |-> inst, key |-> <<inst, rt>>, value |-> gen.value,
                           built |-> gen.built,
                           seen |-> rank # 0,
                           within |-> rank \in 1..maxsize,
                           boundary |-> rank = maxsize,
                           prev |-> IF rank = 0 THEN NoValidator ELSE recency[rank].value,
                           prev_resources |-> IF rank = 0 THEN <<>>
                                              ELSE recency[rank].resources,
                           tuple_seen |-> trank # 0,
                           tuple_within |-> trank # 0 /\ OtherTuplesSince(rt) < maxsize,
                           tuple_prev |-> IF trank = 0 THEN NoValidator
                                          ELSE recency[trank].value]
               /\ UNCHANGED schema_module
        /\ UNCHANGED <<pc, rtypes, lookupVars, threads>>

\* a validation by validator 1 of a document of the hot set
ValidateHot == \E d \in HotDocs : SchemaValidate(1, d)

\* a validation by validator 2 of the hot set's document in sorted order
ValidateOther == SchemaValidate(2, DocOf(Sorted(HotSet)))

\* a validation by validator 1 of a document of the next fresh set
ValidateFresh ==
    /\ FreshRequested < MaxFresh
    /\ SchemaValidate(1, FreshDocs[FreshRequested + 1])

NextCache == ValidateHot \/ ValidateOther \/ ValidateFresh

SpecCache == InitCache /\ [][NextCache]_vars

(***************************************************************************)
(* SpecConc: two threads of one process loading documents through the same *)
(* PolicyLoader, hence the same SchemaValidator (validator 1).  A thread   *)
(* can be preempted between any two of the steps below; each step is one   *)
(* cache operation or one read or write of self.validator.                 *)
(***************************************************************************)
Workers == {1, 2}

\* documents that pass the structure check and name known resources: a valid
\* ec2 document, a valid s3 document, an ec2 document whose policy violates
\* the schema, and an ec2 document that uses one policy name twice
ConcDocs ==
    { DocOf(<<Ec2>>),
      DocOf(<<S3>>),
      Doc("dict", {"policies"}, "list",
          <<MkEntry({"name", "resource"}, "p1", Ec2,
                    Scalar("absent"), Scalar("absent"), FALSE)>>),
      Doc("dict", {"policies"}, "list", <<PlainEntry("p1", Ec2), PlainEntry("p1", Ec2)>>) }

\* a thread outside load_data
IdleThread ==
    [pc |-> "idle", doc |-> NoDoc, rt |-> <<>>, v |-> NoValidator,
     checked_by |-> NoValidator, rechecked_by |-> NoValidator,
     result |-> <<>>, outcome |-> NoOutcome]

InitConc ==
    /\ pc = "concurrent"
    /\ policy_data = NoDoc
    /\ outcome = NoOutcome
    /\ calls = <<>>
    /\ rtypes = <<>>
    /\ frame = NoFrame
    /\ NoLoader
    /\ NoLookup
    /\ NoHistory
    /\ threads = [t \in Workers |-> IdleThread]

ConcUnchanged == <<callVars, lookupVars, historyVars, schema_module>>

\* load_data up to validator.validate: resource_types = tuple(sorted(...))
Enter(t) ==
    /\ threads[t].pc = "idle"
    /\ \E d \in ConcDocs :
           threads' = [threads EXCEPT ![t] =
                          [IdleThread EXCEPT !.pc = "gen_schema", !.doc = d,
                                             !.rt = Sorted(get_resource_types(d))]]
    /\ UNCHANGED <<ConcUnchanged, loaderVars>>

\* the lru_cache wrapper looks the key up: a hit returns the cached validator
CacheLookup(t) ==
    /\ threads[t].pc = "gen_schema"
    /\ \E i \in {CacheIndex(cache, CacheKey(1, threads[t].rt))} :
           IF i # 0
           THEN /\ cache' = CacheHit(cache, i)
                /\ threads' = [threads EXCEPT ![t].pc = "publish", ![t].v = cache[i].value]
           ELSE /\ threads' = [threads EXCEPT ![t].pc = "generate"]
                /\ UNCHANGED cache
    /\ UNCHANGED <<ConcUnchanged, validator, constructions>>

\* after a miss: _gen_schema's body runs and the wrapper stores its result
Generate(t) ==
    /\ threads[t].pc = "generate"
    /\ \E v \in {BuildValidator(constructions, 1, threads[t].rt)} :
           /\ cache' = CacheStore(cache, CacheKey(1, threads[t].rt), v)
           /\ constructions' = CountConstruction(constructions, CacheKey(1, threads[t].rt))
           /\ threads' = [threads EXCEPT ![t].pc = "publish", ![t].v = v]
    /\ UNCHANGED <<ConcUnchanged, validator>>

\* gen_schema: self.validator = v
Publish(t) ==
    /\ threads[t].pc = "publish"
    /\ validator' = [validator EXCEPT ![1] = threads[t].v]
    /\ threads' = [threads EXCEPT ![t].pc = "iter_errors"]
    /\ UNCHANGED <<ConcUnchanged, cache, constructions>>

\* _validate: errors = list(self.validator.iter_errors(policy_data)), then the
\* uniqueness check or the narrowing step, which succeeds or raises
Check(t) ==
    /\ threads[t].pc = "iter_errors"
    /\ \E narrow_ok \in BOOLEAN :
           IF iter_errors(validator[1], threads[t].doc) = <<>> \/ narrow_ok
           THEN threads' = [threads EXCEPT
                               ![t].pc = "finish",
                               ![t].checked_by = validator[1],
                               ![t].result = schema_validate(validator[1], validator[1],
                                                             threads[t].doc, TRUE)]
           ELSE threads' = [threads EXCEPT
                               ![t].pc = "fallback",
                               ![t].checked_by = validator[1]]
    /\ UNCHANGED <<ConcUnchanged, loaderVars>>

\* _validate's fallback: errors[0] of the first pass and
\* schema.best_match(self.validator.iter_errors(policy_data))
Fallback(t) ==
    /\ threads[t].pc = "fallback"
    /\ threads' = [threads EXCEPT
                      ![t].pc = "finish",
                      ![t].rechecked_by = validator[1],
                      ![t].result = schema_validate(threads[t].checked_by, validator[1],
                                                    threads[t].doc, FALSE)]
    /\ UNCHANGED <<ConcUnchanged, loaderVars>>

\* load_data: raise on a non-empty result, else build the collection
Finish(t) ==
    /\ threads[t].pc = "finish"
    /\ threads' = [threads EXCEPT
                      ![t].pc = "done",
                      ![t].outcome = IF threads[t].result # <<>>
                                     THEN RaiseValidationErrors(threads[t].result)
                                     ELSE Collection]
    /\ UNCHANGED <<ConcUnchanged, loaderVars>>

\* the thread's caller takes the result (or the error)
Leave(t) ==
    /\ threads[t].pc = "done"
    /\ threads' = [threads EXCEPT ![t] = IdleThread]
    /\ UNCHANGED <<ConcUnchanged, loaderVars>>

NextConc ==
    \E t \in Workers :
        \/ Enter(t)
        \/ CacheLookup(t)
        \/ Generate(t)
        \/ Publish(t)
        \/ Check(t)
        \/ Fallback(t)
        \/ Finish(t)
        \/ Leave(t)

SpecConc == InitConc /\ [][NextConc]_vars

(***************************************************************************)
(* CLAIMS                                                                  *)
(***************************************************************************)

(***************************************************************************)
(* The checks of the structural validation, stated one by one: which       *)
(* documents and entries violate which check, whatever order they are      *)
(* tested in.                                                              *)
(***************************************************************************)
TopCheckNames ==
    <<"not_mapping", "top_level_keys", "policies_missing", "policies_not_list">>

EntryCheckNames ==
    <<"policy_not_mapping", "missing_required", "unknown_keys",
      "filters_not_list", "filter_element", "actions_not_list", "action_element">>

\* a list-valued key holds a list with an element that is no mapping and no string
HasBadElement(v) ==
    v.type = "list" /\ \E i \in 1..Len(v.items) : v.items[i] \notin {"dict", "str"}

\* a list-valued key holds something that is neither a list nor null
NotListNorNull(v) == v.type \notin {"absent", "list", "NoneType"}

TopViolates(d, c) ==
    CASE c = 1 -> d.type # "dict"
      [] c = 2 -> d.type = "dict" /\ \E k \in d.keys : k \notin allowed_file_keys
      [] c = 3 -> d.type = "dict" /\ "policies" \notin d.keys
      [] c = 4 -> d.type = "dict" /\ "policies" \in d.keys /\ d.policies.type # "list"

EntryViolates(p, c) ==
    CASE c = 1 -> p.type # "dict"
      [] c = 2 -> p.type = "dict" /\ ~({"name", "resource"} \subseteq p.keys)
      [] c = 3 -> p.type = "dict" /\ \E k \in p.keys : k \notin allowed_policy_keys
      [] c = 4 -> p.type = "dict" /\ NotListNorNull(p.filters)
      [] c = 5 -> p.type = "dict" /\ HasBadElement(p.filters)
      [] c = 6 -> p.type = "dict" /\ NotListNorNull(p.actions)
      [] c = 7 -> p.type = "dict" /\ HasBadElement(p.actions)

TopViolations(d) == {c \in 1..4 : TopViolates(d, c)}

\* the entries of a document whose top level is well formed
EntriesOf(d) == IF TopViolations(d) = {} THEN d.policies.items ELSE <<>>

EntryViolations(d) ==
    {v \in (1..Len(EntriesOf(d))) \X (1..7) : EntryViolates(EntriesOf(d)[v[1]], v[2])}

Min(S) == CHOOSE x \in S : \A y \in S : x <= y

\* the earliest failing check of the earliest failing entry
FirstEntryViolation(d) ==
    LET i == Min({v[1] : v \in EntryViolations(d)})
    IN  <<i, Min({v[2] : v \in {w \in EntryViolations(d) : w[1] = i}})>>

\* the error is the one of check c of entry p
ReportsEntryCheck(o, p, c) ==
    /\ o.kind = "raised"
    /\ o.exc = "PolicyValidationError"
    /\ o.check = EntryCheckNames[c]
    /\ IF c <= 2 THEN o.dump = p ELSE o.policy = p.name

\* C2: validate fails on the first violation in the precedence order: the
\* top-level checks in order, then the entries in sequence order and, within
\* an entry, its checks in order; the error raised is the one of the earliest
\* failing check of the earliest failing entry.
C2_FirstViolationReported ==
    pc = "validated" =>
        IF TopViolations(policy_data) # {} THEN
            /\ outcome.kind = "raised"
            /\ outcome.exc = "PolicyValidationError"
            /\ outcome.check = TopCheckNames[Min(TopViolations(policy_data))]
        ELSE IF EntryViolations(policy_data) # {} THEN
            LET v == FirstEntryViolation(policy_data)
            IN  ReportsEntryCheck(outcome, policy_data.policies.items[v[1]], v[2])
        ELSE TRUE

\* an entry that is a mapping with name, resource and only allowed keys
WellKeyed(p) ==
    /\ p.type = "dict"
    /\ {"name", "resource"} \subseteq p.keys
    /\ p.keys \subseteq allowed_policy_keys

\* absent, null, or a list of mappings and strings
AcceptableList(v) ==
    \/ v.type \in {"absent", "NoneType"}
    \/ v.type = "list" /\ \A i \in 1..Len(v.items) : v.items[i] \in {"dict", "str"}

AcceptableEntry(p) == AcceptableList(p.filters) /\ AcceptableList(p.actions)

\* C4: an entry that is a mapping with name, resource and only allowed keys is
\* accepted when filters and actions are each absent, null or a list of
\* mappings and strings (validation then ends without any error), and is
\* otherwise rejected with a PolicyValidationError naming the policy.
C4_ListKeysAccepted ==
    (/\ pc = "validated"
     /\ TopViolations(policy_data) = {}
     /\ \A i \in 1..Len(policy_data.policies.items) :
            WellKeyed(policy_data.policies.items[i]))
    => LET items == policy_data.policies.items
           bad == {i \in 1..Len(items) : ~AcceptableEntry(items[i])}
       IN  IF bad = {} THEN outcome = Ok
           ELSE /\ outcome.kind = "raised"
                /\ outcome.exc = "PolicyValidationError"
                /\ outcome.policy = items[Min(bad)].name

\* the top-level-keys error naming the keys of `extra`
TopLevelKeysError(o, extra) ==
    /\ o.kind = "raised"
    /\ o.exc = "PolicyValidationError"
    /\ o.check = "top_level_keys"
    /\ o.found = extra

\* the claim about the top-level keys, for a given set of recognized keys
TopLevelKeysRule(recognized) ==
    (pc = "inspected" /\ policy_data.type = "dict") =>
        LET extra == policy_data.keys \ recognized
        IN  IF extra # {} THEN TopLevelKeysError(outcome, extra)
            ELSE outcome.check # "top_level_keys"

\* C3 (as stated): a mapping document fails with the top-level-keys error,
\* naming the extra keys, if and only if it has a top-level key outside
\* {variables, policies}.
C3_VariablesPoliciesRecognized == TopLevelKeysRule({"variables", "policies"})

\* C3 (amended): a mapping document fails with the top-level-keys error,
\* naming the extra keys, if and only if it has a top-level key outside
\* {vars, policies}; `variables` is such a key.
C3_VarsPoliciesRecognized == TopLevelKeysRule({"vars", "policies"})

\* C3 witness: a document with `variables` and `policies` is rejected for
\* `variables`
C3_Witness ==
    /\ pc = "inspected"
    /\ policy_data.keys = {"variables", "policies"}
    /\ TopLevelKeysError(outcome, {"variables"})

\* the qualified type of a resource as the claim gives it
Dotted(r) == \E i \in DOMAIN r : r[i] = "."
Qualified(r) == IF Dotted(r) THEN r ELSE <<"a", "w", "s", ".">> \o r

Orderings(n) == {f \in [1..n -> 1..n] : \A i, j \in 1..n : f[i] = f[j] => i = j}

\* the document with its policies reordered by f
Reordered(d, f) ==
    [d EXCEPT !.policies.items = [i \in 1..Len(d.policies.items) |-> d.policies.items[f[i]]]]

\* C10: for a document validate accepts, get_resource_types returns exactly the
\* set of qualified resource types of its policies (aws.<resource> for a
\* resource without a dot, the resource as written otherwise): duplicates are
\* merged, the order of the policies does not matter, a second call gives the
\* same set, and ec2, aws.s3, ec2 give exactly {aws.ec2, aws.s3}.
C10_ResourceTypes ==
    (pc = "inspected" /\ outcome = Ok) =>
        LET items == policy_data.policies.items
        IN  /\ rtypes[1] = {Qualified(items[i].resource) : i \in 1..Len(items)}
            /\ rtypes[2] = rtypes[1]
            /\ \A f \in Orderings(Len(items)) :
                   get_resource_types(Reordered(policy_data, f)) = rtypes[1]
            /\ ResourcesOf(policy_data) =
                   <<<<"e", "c", "2">>, <<"a", "w", "s", ".", "s", "3">>, <<"e", "c", "2">>>>
               => rtypes[1] = {<<"a", "w", "s", ".", "e", "c", "2">>,
                               <<"a", "w", "s", ".", "s", "3">>}

\* C10 witness: the accepted document with resources ec2, aws.s3, ec2
C10_Witness ==
    /\ pc = "inspected"
    /\ outcome = Ok
    /\ ResourcesOf(policy_data) = <<Ec2, AwsS3, Ec2>>
    /\ rtypes[1] = {AwsEc2, AwsS3}

\* the source has the lookup shape: type `resource`, a key, optional default-value
LookupShape(src) ==
    /\ src.type = "dict"
    /\ {"type", "key"} \subseteq src.keys
    /\ src.keys \subseteq {"type", "key", "default-value"}
    /\ src.typ = "resource"

\* the value found at the key in the context ("None": none is present)
ValueAt(key, ctx) ==
    IF ctx.type = "dict" /\ key \in DOMAIN ctx.fields THEN ctx.fields[key] ELSE "None"

\* the outcome the claim gives a source of the lookup shape
LookupOutcome(src, ctx, o) ==
    IF ValueAt(src.key, ctx) # "None"
    THEN o.kind = "returned" /\ o.value = ValueAt(src.key, ctx)
    ELSE IF "default-value" \in src.keys
         THEN o.kind = "returned" /\ o.value = src.default
         ELSE o.kind = "raised" /\ o.key = src.key

\* C9: extract returns a source that is not a mapping unchanged; for a mapping
\* of the lookup shape it returns the value found at key when one is present,
\* otherwise the supplied default-value, otherwise it fails naming the key; and
\* it never returns for a mapping source without a resolved value or a
\* supplied default.
C9_ExtractOutcomes ==
    pc = "extracted" =>
        IF lookup_source.type # "dict"
        THEN outcome.kind = "returned" /\ outcome.value = lookup_source.value
        ELSE /\ LookupShape(lookup_source)
                    => LookupOutcome(lookup_source, lookup_data, outcome)
             /\ outcome.kind = "returned"
                    => /\ LookupShape(lookup_source)
                       /\ LookupOutcome(lookup_source, lookup_data, outcome)

\* a document the structural validation has to reject
StructurallyInvalid(d) == TopViolations(d) # {} \/ EntryViolations(d) # {}

\* the steps that may only follow a successful structural validation
LaterSteps ==
    {"get_resource_types", "load_resources", "_handle_missing_resources",
     "validator.validate", "gen_schema", "schema.generate", "check_schema",
     "iter_errors", "from_data"}

\* C1: in every load_data call the structural validation is the first step,
\* whatever the validate flag; when it fails the load ends with that error,
\* no resource resolution, schema generation or collection construction
\* happens in that load, and the schema cache is left unchanged.
C1_StructureFirst ==
    [][(pc = "idle" /\ pc' = "returned") =>
        /\ calls'[1] = "structure.validate"
        /\ StructurallyInvalid(policy_data') => outcome'.kind = "raised"
        /\ validate(policy_data') # Ok =>
              /\ outcome' = validate(policy_data')
              /\ \A i \in 1..Len(calls') : calls'[i] \notin LaterSteps
              /\ cache' = cache
              /\ constructions' = constructions
              /\ validator' = validator]_vars

\* C1 witness: a load with validate=False of a document whose entry lacks
\* `name` ended with the structural error, with a validator cached before
C1_Witness ==
    /\ pc = "returned"
    /\ frame.validate = "False"
    /\ outcome.check = "missing_required"
    /\ calls = <<"structure.validate">>
    /\ cache # <<>>

\* C5: when load_resources reports unresolved resource types, load_data fails
\* with a PolicyValidationError naming the first policy, in document order,
\* whose qualified resource type is unresolved, with its resource as written,
\* and goes on neither to schema validation nor to collection construction.
C5_UnknownResource ==
    (pc = "returned" /\ frame.missing # {}) =>
        LET ps == policy_data.policies.items
            hit == {i \in 1..Len(ps) : Qualified(ps[i].resource) \in frame.missing}
        IN  /\ hit # {}
            /\ outcome.kind = "raised"
            /\ outcome.exc = "PolicyValidationError"
            /\ outcome.check = "unknown_resource"
            /\ outcome.policy = ps[Min(hit)].name
            /\ outcome.detail = <<ps[Min(hit)].resource>>
            /\ \A i \in 1..Len(calls) :
                   calls[i] \notin {"validator.validate", "gen_schema", "schema.generate",
                                    "iter_errors", "from_data"}

\* C5 witness: both policies are of unresolved types and the first is named,
\* with its bare resource name
C5_Witness ==
    /\ pc = "returned"
    /\ Cardinality(frame.missing) = 2
    /\ Len(policy_data.policies.items) = 2
    /\ policy_data.policies.items[1].name = "p2"
    /\ policy_data.policies.items[2].name = "p1"
    /\ outcome.policy = "p2"
    /\ outcome.detail = <<Ec2>>

\* t lists the set S in strictly increasing order, each member once
IncreasingTupleOf(t, S) ==
    /\ Range(t) = S
    /\ \A i, j \in 1..Len(t) : i < j => StrLess(t[i], t[j])

\* a request served from the cache: no construction, the validator of last time
ServedFromCache(value, built, prev) == ~built /\ value = prev

\* C7 (as stated): the cache is keyed by the sorted resource-type tuple alone:
\* a request for a tuple requested before, with fewer than 32 other distinct
\* tuples requested since its last use, returns the same validator as before
\* and does not run schema.generate again.
C7_KeyedByTupleAlone ==
    (pc = "serving" /\ last.tuple_within)
        => ServedFromCache(last.value, last.built, last.tuple_prev)

\* C7 (amended): the cache is keyed by the SchemaValidator together with the
\* sorted tuple of the document's set of qualified resource types (so order
\* and duplicates do not matter) and holds at most 32 keys: a request by a
\* validator for a tuple it requested before, with fewer than 32 other
\* (validator, tuple) pairs requested since, returns the same validator as
\* before without running schema.generate; any other request constructs one.
C7_KeyedByValidatorAndTuple ==
    (pc = "serving" /\ last # NoRequest) =>
        /\ IncreasingTupleOf(last.key[2],
                             {Qualified(r) : r \in Range(ResourcesOf(policy_data))})
        /\ Len(cache) <= 32
        /\ last.within => ServedFromCache(last.value, last.built, last.prev)
        /\ ~last.within => last.built
        /\ validator[last.inst] = last.value

\* C7 witness: a request with exactly 31 other keys since the key's last use,
\* for a document listing the resources in another order and with a
\* duplicate, is served from the cache
C7_Witness ==
    /\ pc = "serving"
    /\ last.boundary
    /\ last.prev_resources # ResourcesOf(policy_data)
    /\ ServedFromCache(last.value, last.built, last.prev)

\* the threads that have run _validate's first pass
Checked == {t \in DOMAIN threads : threads[t].checked_by # NoValidator}

\* the threads that have run the fallback's second pass
Rechecked == {t \in DOMAIN threads : threads[t].rechecked_by # NoValidator}

\* C8: when two validations of documents with different resource-type tuples
\* run concurrently on one loader, under every interleaving each document is
\* checked, in the main check and in the fallback re-check, by a validator
\* built for its own resource-type tuple.
C8_CheckedByOwnValidator ==
    /\ \A t \in Checked : threads[t].checked_by.types = threads[t].rt
    /\ \A t \in Rechecked : threads[t].rechecked_by.types = threads[t].rt

\* the threads whose load_data has ended after a non-empty validation result
EndedWithErrors == {t \in DOMAIN threads : threads[t].pc = "done" /\ threads[t].result # <<>>}

\* C6: whenever SchemaValidator.validate returns a non-empty result, the
\* fallback's filtered result included, load_data fails with a
\* PolicyValidationError built from both elements of the result, and with
\* no other kind of error.
C6_ErrorFromBothElements ==
    \A t \in EndedWithErrors :
        /\ threads[t].outcome.exc = "PolicyValidationError"
        /\ Len(threads[t].result) = 2
        /\ threads[t].outcome.detail = <<threads[t].result[2], threads[t].result[1]>>

====
